---- MODULE Spec2Model ----
(***************************************************************************)
(* A model of tsvF2mot.py: the conversion of a QTM force-plate .tsv file   *)
(* into an OpenSim .mot file.                                              *)
(*                                                                         *)
(* Strings that the program parses with float()/int() are modelled as      *)
(* decimal numerals: a token [num, neg, m, e] is the text of the number    *)
(* m * 10^-e with a leading '-' when neg holds ("-0" is a token of its     *)
(* own); a token that float() rejects has num = FALSE, and its m is the    *)
(* length of its text.  Floating point arithmetic is modelled by exact     *)
(* decimal arithmetic; the inputs of the model stay away from rounding     *)
(* ties, where the binary representation would decide.                     *)
(***************************************************************************)
EXTENDS Integers, Sequences, FiniteSets, TLC

\* Bounds of the model.
MaxLines == 4      \* the longest input file, in lines
MaxFiles == 2      \* the longest batch (args.input)

\* Program constants.
Decimals == 8      \* "%.8f"
ScaleDigits == 3   \* factor 0.001 = 10^-3
RjustValue == 11   \* x.rjust(11)
RjustTime == 20    \* pad(str(time)).rjust(20)
ExtraColumns == 10 \* len(i.split())+1+9
ShiftX == 50000000 \* 0.5 in units of 10^-8 (applied as -0.5)
ShiftZ == 25000000 \* 0.25 in units of 10^-8

VARIABLES
    py,            \* the interpreter's major version: n_rows/2 is 2's or 3's division
    nFiles,        \* len(args.input)
    fileIdx,       \* how many files main has called convert for
    results,       \* per attempted file, "done" (the Done! notice) or "failed"
    pc,            \* "main", "scan" (inside convert's loop), "failed", "exit"
    line_data,     \* the lines of the input file
    out,           \* the lines written to the .mot file of the current file
    header_rows,   \* lines consumed by the loop so far
    time, quant, data_flag, frame_number,
    n_rows, n_columns, dataset_half   \* dataset_half is kept in halves (2 * value)

vars == <<py, nFiles, fileIdx, results, pc, line_data, out, header_rows,
          time, quant, data_flag, frame_number, n_rows, n_columns, dataset_half>>

----------------------------------------------------------------------------
\* Arithmetic helpers.

RECURSIVE Pow10(_)
Pow10(k) == IF k <= 0 THEN 1 ELSE 10 * Pow10(k - 1)

RECURSIVE Digits(_)
Digits(n) == IF n < 10 THEN 1 ELSE 1 + Digits(n \div 10)

RECURSIVE GCD(_, _)
GCD(a, b) == IF b = 0 THEN a ELSE GCD(b, a % b)

Abs(v) == IF v < 0 THEN -v ELSE v

Max(a, b) == IF a >= b THEN a ELSE b

\* the nearest integer to a / b, for a >= 0 and b > 0
RoundDiv(a, b) == (2 * a + b) \div (2 * b)

\* Rationals [n, d] in lowest terms stand for the floats time and quant.
Rat(n, d) == LET g == GCD(n, d) IN IF g = 0 THEN [n |-> 0, d |-> 1] ELSE [n |-> n \div g, d |-> d \div g]

RatAdd(a, b) == Rat(a.n * b.d + b.n * a.d, a.d * b.d)

----------------------------------------------------------------------------
\* Tokens.

Num(neg, m, e) == [num |-> TRUE, neg |-> neg, m |-> m, e |-> e]

Txt(len) == [num |-> FALSE, neg |-> FALSE, m |-> len, e |-> 0]

\* '0.00000000'
ZeroStr == Num(FALSE, 0, Decimals)

zero_tuple == <<ZeroStr, ZeroStr, ZeroStr>>

\* "%.8f" % float(s): the numeral rounded to 8 decimals, the sign kept
pad(s) ==
    Num(s.neg,
        IF s.e <= Decimals THEN s.m * Pow10(Decimals - s.e)
                           ELSE RoundDiv(s.m, Pow10(s.e - Decimals)),
        Decimals)

\* strip a leading '-' or prepend one
reverse_axis(x_data) == [x_data EXCEPT !.neg = ~x_data.neg]

\* str(float(axis_data) * 10^-digits)
scale_axis(axis_data, digits) == [axis_data EXCEPT !.e = axis_data.e + digits]

\* pad(str(float(axis_data) + shift)), shift in units of 10^-8
shift_axis(axis_data, shift) ==
    LET E == Max(axis_data.e, Decimals)
        v == (IF axis_data.neg THEN -axis_data.m ELSE axis_data.m) * Pow10(E - axis_data.e)
             + shift * Pow10(E - Decimals)
    IN pad(Num(v < 0, Abs(v), E))

\* the value of an 8-decimal numeral, in units of 10^-8
Val8(s) == IF s.neg THEN -s.m ELSE s.m

----------------------------------------------------------------------------
\* One data row.

\* the row raises IndexError (a missing token) or ValueError (float() rejects one)
RowRaises(d) == IF Len(d) < 9 THEN TRUE ELSE \E j \in 1..9 : ~d[j].num

\* Index k of the code is index k+1 here.
\* lines 293-306: padding, the scaling of the COP, the swaps
Remap(d) ==
    LET s1 == [d EXCEPT ![1] = pad(d[1]), ![4] = pad(d[4]),
                        ![7] = pad(scale_axis(d[7], ScaleDigits))]
        s2 == [s1 EXCEPT ![2] = pad(s1[3]), ![3] = pad(s1[2])]
        s3 == [s2 EXCEPT ![5] = pad(s2[6]), ![6] = pad(s2[5])]
        s4 == [s3 EXCEPT ![8] = ZeroStr,
                         ![9] = pad(scale_axis(reverse_axis(s3[8]), ScaleDigits))]
        s5 == [s4 EXCEPT ![3] = s4[3], ![1] = s4[1]]
        s6 == [s5 EXCEPT ![6] = s5[4], ![4] = s5[6]]
    IN [s6 EXCEPT ![9] = s6[7], ![7] = s6[9]]

\* Reverse with line 310 (reverse Vx) in force
ReverseWithVx(d) ==
    [d EXCEPT ![1] = reverse_axis(d[1]),
              ![4] = reverse_axis(d[4]), ![7] = reverse_axis(d[7]),
              ![3] = reverse_axis(d[3]), ![6] = reverse_axis(d[6]),
              ![9] = reverse_axis(d[9])]

\* lines 310-316
Reverse(d) ==
    [d EXCEPT ![4] = reverse_axis(d[4]), ![7] = reverse_axis(d[7]),
              ![3] = reverse_axis(d[3]), ![6] = reverse_axis(d[6]),
              ![9] = reverse_axis(d[9])]

\* lines 320-326
Shift(d) ==
    [d EXCEPT ![1] = shift_axis(d[1], -ShiftX), ![4] = shift_axis(d[4], -ShiftX),
              ![7] = shift_axis(d[7], -ShiftX), ![3] = shift_axis(d[3], ShiftZ),
              ![6] = shift_axis(d[6], ShiftZ), ![9] = shift_axis(d[9], ShiftZ)]

Transform(d) == Shift(Reverse(Remap(d)))

\* IsRightLeg with frame_number <= dataset_half
IsRightLegInclusive(frame, half2) == 2 * frame <= half2

\* lines 354-403: frame_number < dataset_half, dataset_half in halves
IsRightLeg(frame, half2) == 2 * frame < half2

\* RightLeg with line 376 (extend(swap_tuple_m)) in place of line 377
RightLegWithMoment(d) ==
    [d EXCEPT ![4] = d[7], ![5] = d[8], ![6] = d[9],
              ![7] = ZeroStr, ![8] = ZeroStr, ![9] = ZeroStr]
    \o zero_tuple \o <<d[4], d[5], d[6]>> \o zero_tuple

RightLeg(d) ==
    [d EXCEPT ![4] = d[7], ![5] = d[8], ![6] = d[9],
              ![7] = ZeroStr, ![8] = ZeroStr, ![9] = ZeroStr]
    \o zero_tuple \o zero_tuple \o zero_tuple

LeftLeg(d) ==
    [d EXCEPT ![1] = ZeroStr, ![2] = ZeroStr, ![3] = ZeroStr,
              ![4] = ZeroStr, ![5] = ZeroStr, ![6] = ZeroStr,
              ![7] = d[1], ![8] = d[2], ![9] = d[3]]
    \o <<d[7], d[8], d[9]>> \o zero_tuple \o zero_tuple

LegSegment(d, frame, half2) == IF IsRightLeg(frame, half2) THEN RightLeg(d) ELSE LeftLeg(d)

\* the characters before the first '.' of a token
IntPartLen(x) ==
    IF x.num THEN (IF x.neg THEN 1 ELSE 0) + Digits(x.m \div Pow10(x.e)) ELSE x.m

\* lines 409-426: the part before the '.' right-justified to 11, the rest appended
FormatField(x) == [lead |-> Max(0, RjustValue - IntPartLen(x)), txt |-> x]

\* pad(str(time)).rjust(20)
FormatTime(t) ==
    LET s == pad(Num(FALSE, RoundDiv(t.n * Pow10(Decimals), t.d), Decimals))
    IN [lead |-> Max(0, RjustTime - (IntPartLen(s) + 1 + Decimals)), txt |-> s]

HeaderLine(kind, n) == [kind |-> kind, n |-> n, fields |-> <<>>]

DataRowStr(t, d) ==
    [kind |-> "row", n |-> 0,
     fields |-> <<FormatTime(t)>> \o [j \in 1..Len(d) |-> FormatField(d[j])]]

----------------------------------------------------------------------------
\* The input lines of the model.

FreqLine(v) == [head |-> "FREQUENCY", toks |-> <<Txt(9), v>>]

MarkerLine == [head |-> "Force_X", toks |-> [j \in 1..9 |-> Txt(7)]]

DataLine(toks) == [head |-> "", toks |-> toks]

\* 1.0 2.0 3.0 4.0 5.0 6.0 100.0 250.0 7.0
RowA == <<Num(FALSE, 10, 1), Num(FALSE, 20, 1), Num(FALSE, 30, 1),
          Num(FALSE, 40, 1), Num(FALSE, 50, 1), Num(FALSE, 60, 1),
          Num(FALSE, 1000, 1), Num(FALSE, 2500, 1), Num(FALSE, 70, 1)>>

\* -1.5 0.25 -0.123456786 -4 5.5 -0 -120.5 12.3456789 0.000000004 abc
RowB == <<Num(TRUE, 15, 1), Num(FALSE, 25, 2), Num(TRUE, 123456786, 9),
          Num(TRUE, 4, 0), Num(FALSE, 55, 1), Num(TRUE, 0, 0),
          Num(TRUE, 1205, 1), Num(FALSE, 123456789, 7), Num(FALSE, 4, 9),
          Txt(3)>>

InputLines ==
    { FreqLine(Num(FALSE, 100, 0)),       \* FREQUENCY 100
      FreqLine(Num(FALSE, 3, 0)),         \* FREQUENCY 3
      FreqLine(Num(FALSE, 1005, 1)),      \* FREQUENCY 100.5
      MarkerLine,
      DataLine(RowA),                                     \* nine columns
      DataLine(RowB),                                     \* ten columns
      DataLine(SubSeq(RowA, 1, 8)),                       \* eight columns
      DataLine([RowA EXCEPT ![5] = Txt(3)]),              \* a token that is no number
      DataLine(<<>>) }                                    \* an empty line

\* every file of at most MaxLines lines
InputFiles == UNION { [1..n -> InputLines] : n \in 0..MaxLines }

----------------------------------------------------------------------------
\* The program.

Init ==
    /\ py \in {2, 3}
    /\ nFiles \in 1..MaxFiles
    /\ fileIdx = 0
    /\ results = <<>>
    /\ pc = "main"
    /\ line_data = <<>>
    /\ out = <<>>
    /\ header_rows = 0
    /\ time = Rat(0, 1)
    /\ quant = Rat(0, 1)
    /\ data_flag = FALSE
    /\ frame_number = 0
    /\ n_rows = 0
    /\ n_columns = 0
    /\ dataset_half = 0

\* main's loop calls convert(filename): the file is read, the .mot file is opened and
\* its first two lines written, the locals are set (lines 221-239)
Convert_Open ==
    /\ pc = "main"
    /\ fileIdx < nFiles
    /\ fileIdx' = fileIdx + 1
    /\ \E ld \in InputFiles : line_data' = ld
    /\ out' = <<HeaderLine("name", 0), HeaderLine("version", 1)>>
    /\ header_rows' = 0
    /\ time' = Rat(0, 1)
    /\ quant' = Rat(0, 1)
    /\ data_flag' = FALSE
    /\ frame_number' = 0
    /\ n_rows' = 0
    /\ n_columns' = 0
    /\ dataset_half' = 0
    /\ pc' = "scan"
    /\ UNCHANGED <<py, nFiles, results>>

\* open() raises (the input cannot be read or the output cannot be created): nothing
\* catches it, in convert or in main
Convert_OpenRaises ==
    /\ pc = "main"
    /\ fileIdx < nFiles
    /\ fileIdx' = fileIdx + 1
    /\ results' = Append(results, "failed")
    /\ line_data' = <<>>
    /\ out' = <<>>
    /\ pc' = "failed"
    /\ UNCHANGED <<py, nFiles, header_rows, time, quant, data_flag, frame_number,
                   n_rows, n_columns, dataset_half>>

\* the line the loop body is about to handle
CurLine == line_data[header_rows + 1]

InLoop == pc = "scan" /\ header_rows < Len(line_data)

IsFreq(i) == i.head = "FREQUENCY"

IsMarker(i) == i.head = "Force_X"

\* int(i.split()[1]) raises, or 1.0 / frequency does
FreqRaises(i) ==
    IF Len(i.toks) < 2 THEN TRUE
    ELSE ~i.toks[2].num \/ i.toks[2].e # 0 \/ i.toks[2].m = 0

\* Reciprocal as 1 / frequency in integer division
ReciprocalInteger(frequency) == Rat(1 \div frequency, 1)

\* 1.0 / frequency
Reciprocal(frequency) == Rat(1, frequency)

\* quant after lines 246-249
QuantAfter(i) == IF IsFreq(i) /\ ~FreqRaises(i) THEN Reciprocal(i.toks[2].m) ELSE quant

\* NRows with the marker line counted as a data row
NRowsWithMarker(total_rows, hdr) == total_rows - hdr + 1

\* total_rows - header_rows
NRows(total_rows, hdr) == total_rows - hdr

\* n_rows / 2, in halves
Half(n) == IF py = 2 THEN 2 * (n \div 2) ELSE n

\* the iteration raises an exception, which leaves convert and main
Scan_Raises ==
    /\ InLoop
    /\ \/ IsFreq(CurLine) /\ FreqRaises(CurLine)
       \/ ~IsMarker(CurLine) /\ data_flag /\ RowRaises(CurLine.toks)
    /\ header_rows' = header_rows + 1
    /\ quant' = QuantAfter(CurLine)
    /\ results' = Append(results, "failed")
    /\ pc' = "failed"
    /\ UNCHANGED <<py, nFiles, fileIdx, line_data, out, time, data_flag, frame_number,
                   n_rows, n_columns, dataset_half>>

\* lines 252-281
Scan_Marker ==
    /\ InLoop
    /\ ~(IsFreq(CurLine) /\ FreqRaises(CurLine))
    /\ IsMarker(CurLine)
    /\ header_rows' = header_rows + 1
    /\ quant' = QuantAfter(CurLine)
    /\ n_columns' = Len(CurLine.toks) + ExtraColumns
    /\ n_rows' = NRows(Len(line_data), header_rows')
    /\ dataset_half' = Half(n_rows')
    /\ out' = out \o <<HeaderLine("nRows", n_rows'), HeaderLine("nColumns", n_columns'),
                       HeaderLine("inDegrees", 0), HeaderLine("endheader", 0),
                       HeaderLine("columns", 0)>>
    /\ data_flag' = TRUE
    /\ UNCHANGED <<py, nFiles, fileIdx, results, pc, line_data, time, frame_number>>

\* lines 282-285: a header line (the frequency line too) is printed, not written
Scan_Extra ==
    /\ InLoop
    /\ ~(IsFreq(CurLine) /\ FreqRaises(CurLine))
    /\ ~IsMarker(CurLine)
    /\ ~data_flag
    /\ header_rows' = header_rows + 1
    /\ quant' = QuantAfter(CurLine)
    /\ UNCHANGED <<py, nFiles, fileIdx, results, pc, line_data, out, time, data_flag,
                   frame_number, n_rows, n_columns, dataset_half>>

\* the string written for a data row (lines 289-433)
RowOf(toks, frame, half2, t) == DataRowStr(t, LegSegment(Transform(toks), frame, half2))

\* lines 286-438
Scan_Data ==
    /\ InLoop
    /\ ~(IsFreq(CurLine) /\ FreqRaises(CurLine))
    /\ ~IsMarker(CurLine)
    /\ data_flag
    /\ ~RowRaises(CurLine.toks)
    /\ header_rows' = header_rows + 1
    /\ quant' = QuantAfter(CurLine)
    /\ out' = Append(out, RowOf(CurLine.toks, frame_number, dataset_half, time))
    /\ frame_number' = frame_number + 1
    /\ time' = RatAdd(time, quant')
    /\ UNCHANGED <<py, nFiles, fileIdx, results, pc, line_data, data_flag,
                   n_rows, n_columns, dataset_half>>

\* line 449: the loop is over, the file is closed and the Done! notice printed;
\* convert returns and its locals are gone
Convert_Done ==
    /\ pc = "scan"
    /\ header_rows = Len(line_data)
    /\ results' = Append(results, "done")
    /\ pc' = "main"
    /\ line_data' = <<>>
    /\ out' = <<>>
    /\ header_rows' = 0
    /\ time' = Rat(0, 1)
    /\ quant' = Rat(0, 1)
    /\ data_flag' = FALSE
    /\ frame_number' = 0
    /\ n_rows' = 0
    /\ n_columns' = 0
    /\ dataset_half' = 0
    /\ UNCHANGED <<py, nFiles, fileIdx>>

\* main's loop is over
Main_Exit ==
    /\ pc = "main"
    /\ fileIdx = nFiles
    /\ pc' = "exit"
    /\ UNCHANGED <<py, nFiles, fileIdx, results, line_data, out, header_rows, time, quant,
                   data_flag, frame_number, n_rows, n_columns, dataset_half>>

Next ==
    \/ Convert_Open
    \/ Convert_OpenRaises
    \/ Scan_Raises
    \/ Scan_Marker
    \/ Scan_Extra
    \/ Scan_Data
    \/ Convert_Done
    \/ Main_Exit

Spec == Init /\ [][Next]_vars

----------------------------------------------------------------------------
\* Vocabulary of the properties.

\* the loop has handled every line without an exception: the conversion completes
Completed == pc = "scan" /\ header_rows = Len(line_data)

\* the indexes of the output lines that are data rows
RowIdx == { k \in 1..Len(out) : out[k].kind = "row" }

\* the line just handled was written as a data row
RowWritten == pc = "scan" /\ out # <<>> /\ out[Len(out)].kind = "row"

LastRow == out[Len(out)]

\* the tokens of the input line the last row was built from, and its frame index
LastToks == line_data[header_rows].toks

LastFrame == frame_number - 1

\* value column j (1..18) of an output row, as text
Col(row, j) == row.fields[j + 1].txt

\* the 8-decimal value of an input token, in units of 10^-8
In8(tok) == Val8(pad(tok))

\* the marker lines of a file
Markers(ld) == { k \in 1..Len(ld) : IsMarker(ld[k]) }

\* the frequency lines handled so far whose value is a positive integer
GoodFreqs == { k \in 1..header_rows : IsFreq(line_data[k]) /\ ~FreqRaises(line_data[k]) }

\* the frequency the time increment was last derived from
LastFreq == line_data[CHOOSE k \in GoodFreqs : \A l \in GoodFreqs : l <= k].toks[2].m

\* the k-th data row (from 0) of the output
NthRow(k) == out[CHOOSE i \in RowIdx : Cardinality({ l \in RowIdx : l < i }) = k]

----------------------------------------------------------------------------
\* C1: a row built from nine tokens has its six left-leg force and COP fields
\* (columns 7-12) equal to '0.00000000' when its frame index is below dataset_half
\* (n_rows / 2 as computed at the marker line), and its six right-leg fields
\* (columns 1-6) equal to '0.00000000' otherwise.
C1_InactiveLegZero ==
    (RowWritten /\ Len(LastToks) = 9) =>
        /\ dataset_half \in { n_rows, 2 * (n_rows \div 2) }
        /\ IF 2 * LastFrame < dataset_half
           THEN \A j \in 7..12 : Col(LastRow, j) = ZeroStr
           ELSE \A j \in 1..6 : Col(LastRow, j) = ZeroStr

\* a left-leg row of nine tokens written after a right-leg row
C1_Witness ==
    /\ RowWritten /\ Len(LastToks) = 9
    /\ LastFrame >= 1 /\ 2 * LastFrame >= dataset_half /\ dataset_half >= 2
    /\ \A j \in 1..6 : Col(LastRow, j) = ZeroStr
    /\ Col(LastRow, 7) # ZeroStr

\* C2: the last six fields of every data row written (for a nine-token row the
\* columns 13-18, R_ground_torque_x .. L_ground_torque_z) are '0.00000000', for a
\* right-leg and for a left-leg row, whatever the input moments are.
C2_TorqueZero ==
    /\ \A k \in RowIdx :
          LET f == out[k].fields
          IN Len(f) >= 19 /\ \A j \in (Len(f) - 5)..Len(f) : f[j].txt = ZeroStr
    /\ (RowWritten /\ Len(LastToks) = 9) =>
          /\ Len(LastRow.fields) = 19
          /\ \A j \in 13..18 : Col(LastRow, j) = ZeroStr

\* a right-leg and a left-leg row written from rows whose moments are not zero
C2_Witness ==
    /\ RowWritten /\ Len(LastToks) = 9
    /\ Cardinality(RowIdx) >= 2
    /\ 2 * LastFrame >= dataset_half /\ dataset_half >= 2
    /\ \A j \in 4..6 : In8(LastToks[j]) # 0

\* C3: when a file with exactly one marker line is converted to the end, the value
\* written as nRows is the number of input lines after the marker line and the
\* number of data rows written.
C3_RowCount ==
    (Completed /\ Cardinality(Markers(line_data)) = 1) =>
        LET marker == CHOOSE k \in Markers(line_data) : TRUE
        IN /\ out[3].kind = "nRows"
           /\ out[3].n = Len(line_data) - marker
           /\ out[3].n = Cardinality(RowIdx)
           /\ out[3].n = n_rows

\* a completed conversion with header lines before the marker and two rows after it
C3_Witness ==
    /\ Completed /\ Cardinality(Markers(line_data)) = 1
    /\ ~IsMarker(line_data[1])
    /\ out[3].n = 2 /\ Cardinality(RowIdx) = 2

C6_Preamble ==
    Completed =>
        LET n == IF RowIdx = {} THEN Len(out)
                 ELSE (CHOOSE i \in RowIdx : \A l \in RowIdx : i <= l) - 1
        IN [k \in 1..n |-> out[k].kind]
           = <<"name", "version", "nRows", "nColumns", "inDegrees", "endheader", "columns">>

\* C7: the line written for a row of nine or more tokens is the time and exactly 18
\* value fields; the tokens after the ninth do not appear and move no field.
C7_EighteenFields ==
    RowWritten =>
        /\ Len(LastRow.fields) = 19
        /\ Tail(LastRow.fields)
           = Tail(RowOf(SubSeq(LastToks, 1, 9), LastFrame, dataset_half, time).fields)

\* C8: the conversion of a file without a marker line does not reach the Done! notice.
C8_MissingMarkerFails == [][Convert_Done => Markers(line_data) # {}]_vars

\* C9: no data row is written for a file that has no frequency line with an integer
\* value before its data rows.
C9_NoRowWithoutFrequency == (pc = "scan" /\ RowIdx # {}) => GoodFreqs # {}

\* C10: a failure in one file does not keep main from calling convert for the later
\* files: the program does not end on a failure with files of the batch unattempted.
C10_BatchContinues == pc = "failed" => fileIdx = nFiles

\* the 8-decimal value of an input COP token after the scaling by 0.001
Scaled8(tok) == Val8(pad(scale_axis(tok, ScaleDigits)))

\* C11 (for a row of nine tokens): the COP triple of the active leg's block has y = '0.00000000', z made from
\* the input y alone (0.001 * Cy + 0.25) and x made from the input x alone
\* (sign-reversed, then shifted by -0.5); the input Cz has no effect.
C11_CopRemap ==
    (RowWritten /\ Len(LastToks) = 9) =>
        LET b == IF 2 * LastFrame < dataset_half THEN 3 ELSE 9
        IN /\ Col(LastRow, b + 2) = ZeroStr
           /\ Val8(Col(LastRow, b + 3)) = Scaled8(LastToks[8]) + ShiftZ
           /\ Val8(Col(LastRow, b + 1)) = -Scaled8(LastToks[7]) - ShiftX

\* C12: the HEADER to DATA transition happens at most once: the block nRows ..
\* column header is written once and before any data row, no header line follows a
\* data row, and n_rows (with dataset_half) keeps the value first written as nRows,
\* also when a later line begins with 'Force_X'.
C12_SingleTransition ==
    /\ Cardinality({ k \in 1..Len(out) : out[k].kind = "columns" }) <= 1
    /\ \A k \in RowIdx : \A l \in 1..Len(out) : l > k => out[l].kind = "row"
    /\ data_flag => (out[3].kind = "nRows" /\ n_rows = out[3].n
                     /\ dataset_half \in { n_rows, 2 * (n_rows \div 2) })

\* a line with fewer than nine tokens, or with a token that float() rejects
Malformed(toks) == Len(toks) < 9 \/ \E j \in 1..Len(toks) : ~toks[j].num

\* C13: in the DATA state a line with fewer than nine tokens, or with any token that
\* is no floating-point number, makes the conversion fail: nothing is written for
\* it, and nothing is written after the failure.
C13_MalformedRowFails ==
    [][/\ (InLoop /\ data_flag /\ Malformed(CurLine.toks)) => (pc' = "failed" /\ out' = out)
       /\ pc = "failed" => out' = out]_vars

====
